---- MODULE Spec2Model ----
(***************************************************************************)
(* A model of magpie: a library of immutable files kept as a keyed map     *)
(* (Library, src/src/library.rs) and synchronised with one remote blob by  *)
(* CrdtPack::sync (src/src/lib.rs).  Two replicas, each with its own       *)
(* working directory, durable state file (local.cbor) and cache file       *)
(* (remote.cbor), share one remote blob.                                   *)
(***************************************************************************)
EXTENDS Naturals, FiniteSets, Sequences, TLC

\* ------------------------------------------------------------ universe
Replicas == {"A", "B"}
Keys == {"notes.txt", "same.txt"}
Contents == {"hello", "world"}

\* The bytes of a file that was created (and so truncated) but whose write failed.
Truncated == ""

\* How many files the users drop into the working directories in one behaviour.
MaxAdds == 2
\* How many I/O calls fail (or rsync runs exit non-zero) in one behaviour.
MaxFaults == 1
\* How many snapshots are merged into one state in the merge algebra.
MaxMerges == 2
\* How many times each replica pull-merges its peer in the direct exchange.
MaxExchanges == 2
\* How many calls of pack and unpack, and files dropped, on one data directory.
MaxOps == 2

VARIABLES
    wd,        \* wd[r]: the plain files of r's working directory, name -> [content, readonly]
    durable,   \* durable[r]: r's durable state file (vars.crdt, local.cbor)
    cache,     \* cache[r]: r's cache file (vars.remote_cache(), remote.cbor)
    remote,    \* the blob at vars.url
    local,     \* local[r]: the Library held in memory by r's running sync
    pc,        \* pc[r]: the last step r's running sync completed ("idle": none runs)
    cyc,       \* cyc[r]: what r's running sync saw (history, read by the properties only)
    adds,      \* files added so far
    faults,    \* faults injected so far
    mself,     \* merge algebra: the state S the snapshots are merged into
    msnap,     \* merge algebra: the snapshots <<A, B>>
    macc,      \* merge algebra: S after the merges applied so far
    mapplied,  \* merge algebra: the snapshots merged so far, in order
    xwd,       \* direct exchange: xwd[r], the files replica r holds locally
    xs,        \* direct exchange: xs[r], replica r's Library
    xcap,      \* direct exchange: xcap[r], whether r has captured its files
    xgot,      \* direct exchange: xgot[r], how many times r pull-merged its peer
    elib,      \* engine: the Library that pack and unpack are called on
    edir,      \* engine: the plain files of the data directory, name -> [content, readonly]
    esub,      \* engine: the names in the data directory that are sub-directories
    eop,       \* engine: the last call ("pack", "unpack"), or "drop", or "none"
    eok,       \* engine: whether the last call returned Ok
    eops,      \* engine: calls and drops so far
    rec        \* recovery: the run under observation and what one sync would have left

syncVars == <<wd, durable, cache, remote, local, pc, cyc, adds, faults>>
mergeVars == <<mself, msnap, macc, mapplied>>
xVars == <<xwd, xs, xcap, xgot>>
engineVars == <<elib, edir, esub, eop, eok, eops>>
vars == <<wd, durable, cache, remote, local, pc, cyc, adds, faults,
          mself, msnap, macc, mapplied, xwd, xs, xcap, xgot,
          elib, edir, esub, eop, eok, eops, rec>>

\* ------------------------------------------------------------ Library (HashMap<String, ByteBuf>)
\* Library::new: the empty map.
new == [k \in {} |-> Truncated]

\* Every Library over Keys with contents in C.
LibrariesOver(C) == UNION {[S -> C] : S \in SUBSET Keys}

\* HashMap::insert: sets the entry, overwriting an existing one.
Insert(m, k, v) == [x \in (DOMAIN m) \cup {k} |-> IF x = k THEN v ELSE m[x]]

\* A merge that inserts unconditionally: the incoming entry replaces the existing one.
Overwrite(m, k, v) == Insert(m, k, v)

\* A merge that takes the entry and forgets or_insert: nothing is inserted.
EntryOnly(m, k, v) == m

\* A merge that resolves an occupied entry by appending the incoming bytes to it.
AppendOnCollision(m, k, v) ==
    IF k \in DOMAIN m THEN Insert(m, k, m[k] \o v) ELSE Insert(m, k, v)

\* HashMap::entry(k).or_insert(v): sets the entry only when the key is vacant.
OrInsert(m, k, v) == IF k \in DOMAIN m THEN m ELSE Insert(m, k, v)

\* The loop of Library::merge over the entries of other not yet visited.
RECURSIVE MergeOver(_, _, _)
MergeOver(self, other, todo) ==
    IF todo = {} THEN self
    ELSE LET name == CHOOSE x \in todo : TRUE
         IN MergeOver(OrInsert(self, name, other[name]), other, todo \ {name})

\* Library::merge(&mut self, other): the value of self afterwards.
merge(self, other) == MergeOver(self, other, DOMAIN other)

\* ------------------------------------------------------------ files
NoFile == [kind |-> "none", set |-> new]
Corrupt == [kind |-> "corrupt", set |-> new]

\* into_writer: the CBOR file holding the Library.
to_file(lib) == [kind |-> "cbor", set |-> lib]

\* A from_file that takes a missing file for an empty Library.
FromFileOrDefault(f) ==
    [ok |-> f.kind # "corrupt", data |-> f.set]

\* from_file: File::open fails on a missing file, from_reader on a file that is
\* not the CBOR of a Library.
from_file(f) == [ok |-> f.kind = "cbor", data |-> f.set]

\* Path::is_file
is_file(f) == f.kind # "none"

\* rsync --ignore-missing-args src dst, exit status 0: the destination afterwards.
\* A missing source is skipped and the destination is left as it was.
rsync(src, dst) == IF src.kind = "none" THEN dst ELSE src

\* ------------------------------------------------------------ working directory
EmptyDir == [k \in {} |-> [content |-> Truncated, readonly |-> FALSE]]

\* set_permissions(readonly = true) on the files in S.
SetReadonly(dir, S) ==
    [k \in DOMAIN dir |-> IF k \in S THEN [dir[k] EXCEPT !.readonly = TRUE] ELSE dir[k]]

\* File::create + write_all of `bytes`, permissions as created.
WriteFile(dir, k, bytes) ==
    [x \in (DOMAIN dir) \cup {k} |->
        IF x = k THEN [content |-> bytes, readonly |-> FALSE] ELSE dir[x]]

\* The loop of Library::pack over the new files not yet visited: each is read,
\* inserted and made read-only.
RECURSIVE PackOver(_, _, _)
PackOver(lib, dir, todo) ==
    IF todo = {} THEN [set |-> lib, dir |-> dir]
    ELSE LET new_file == CHOOSE x \in todo : TRUE
         IN PackOver(Insert(lib, new_file, dir[new_file].content),
                     SetReadonly(dir, {new_file}), todo \ {new_file})

\* A pack that takes every listed file for new, without the difference.
ListedFiles(lib, dir) == DOMAIN dir

\* files.difference(&existing_files) in Library::pack.
NewFiles(lib, dir) == (DOMAIN dir) \ (DOMAIN lib)

\* A pack that lists the new files and inserts none of them.
PackInsertsNothing(lib, dir) == [set |-> lib, dir |-> dir]

\* Library::pack: the Library and the directory afterwards.
pack(lib, dir) == PackOver(lib, dir, NewFiles(lib, dir))

\* The entries Library::unpack does not skip: those with no file at their path.
Missing(lib, dir) == (DOMAIN lib) \ (DOMAIN dir)

\* The loop of Library::unpack over the entries in todo: skip an existing file,
\* else create it, write the entry's bytes and make it read-only.
RECURSIVE UnpackOver(_, _, _)
UnpackOver(lib, dir, todo) ==
    IF todo = {} THEN dir
    ELSE LET filename == CHOOSE x \in todo : TRUE
         IN UnpackOver(lib,
                       IF filename \in DOMAIN dir THEN dir
                       ELSE SetReadonly(WriteFile(dir, filename, lib[filename]), {filename}),
                       todo \ {filename})

\* An unpack that creates the missing files and forgets write_all.
UnpackForgetsWrite(lib, dir) ==
    [k \in (DOMAIN dir) \cup (DOMAIN lib) |->
        IF k \in DOMAIN dir THEN dir[k] ELSE [content |-> Truncated, readonly |-> TRUE]]

\* An unpack without the is_file test: it writes the file of every entry.
UnpackOverwrites(lib, dir) ==
    [k \in (DOMAIN dir) \cup (DOMAIN lib) |->
        IF k \in DOMAIN lib THEN [content |-> lib[k], readonly |-> TRUE] ELSE dir[k]]

\* Library::unpack: the directory afterwards.
unpack(lib, dir) == UnpackOver(lib, dir, DOMAIN lib)

\* ------------------------------------------------------------ sync, step by step
NoCycle == [durable0 |-> new, captured |-> {}, remote0 |-> "n/a", pulled |-> new]

Other(r) == CHOOSE q \in Replicas : q # r

\* sync returns Err: the process exits, its in-memory Library is dropped.
Abort(r) ==
    /\ pc' = [pc EXCEPT ![r] = "idle"]
    /\ local' = [local EXCEPT ![r] = new]
    /\ cyc' = [cyc EXCEPT ![r] = NoCycle]

UseFault ==
    /\ faults < MaxFaults
    /\ faults' = faults + 1

\* A user drops a new file into r's working directory (no sync of r is running).
AddFile(r, k, c) ==
    /\ pc[r] = "idle"
    /\ adds < MaxAdds
    /\ k \notin DOMAIN wd[r]
    /\ adds' = adds + 1
    /\ wd' = [wd EXCEPT ![r] = WriteFile(wd[r], k, c)]
    /\ UNCHANGED <<durable, cache, remote, local, pc, cyc, faults>>
    /\ UNCHANGED <<mergeVars, xVars, engineVars, rec>>

\* An init without the is_file test: it always writes an empty Library.
initAlwaysWrites(r) ==
    /\ pc[r] = "idle"
    /\ durable' = [durable EXCEPT ![r] = to_file(new)]
    /\ UNCHANGED <<wd, cache, remote, local, pc, cyc, adds, faults>>
    /\ UNCHANGED <<mergeVars, xVars, engineVars, rec>>

\* CrdtPack::init: nothing when the durable file exists, else an empty Library is written.
init(r) ==
    /\ pc[r] = "idle"
    /\ durable' = [durable EXCEPT ![r] = IF is_file(durable[r]) THEN durable[r] ELSE to_file(new)]
    /\ UNCHANGED <<wd, cache, remote, local, pc, cyc, adds, faults>>
    /\ UNCHANGED <<mergeVars, xVars, engineVars, rec>>

\* CrdtPack::init failing: create_dir_all or File::create fails (nothing is written),
\* or into_writer fails after File::create made the file.
initFail(r) ==
    /\ pc[r] = "idle"
    /\ ~is_file(durable[r])
    /\ UseFault
    /\ \E f \in {NoFile, Corrupt} : durable' = [durable EXCEPT ![r] = f]
    /\ UNCHANGED <<wd, cache, remote, local, pc, cyc, adds>>
    /\ UNCHANGED <<mergeVars, xVars, engineVars, rec>>

\* sync, load_file: from_file(&vars.crdt) succeeds.
LoadFromFile(r) ==
    /\ pc[r] = "idle"
    /\ from_file(durable[r]).ok
    /\ local' = [local EXCEPT ![r] = from_file(durable[r]).data]
    /\ pc' = [pc EXCEPT ![r] = "loaded"]
    /\ cyc' = [cyc EXCEPT ![r] = [NoCycle EXCEPT !.durable0 = durable[r].set]]
    /\ UNCHANGED <<wd, durable, cache, remote, adds, faults>>
    /\ UNCHANGED <<mergeVars, xVars, engineVars, rec>>

\* sync, load_file: from_file(&vars.crdt) fails (the file is missing or does not decode).
LoadFromFileErr(r) ==
    /\ pc[r] = "idle"
    /\ ~from_file(durable[r]).ok
    /\ UNCHANGED <<wd, durable, cache, remote, local, pc, cyc, adds, faults>>
    /\ UNCHANGED <<mergeVars, xVars, engineVars, rec>>

\* sync, load_file: CrdtPack::pack succeeds.
LoadPack(r) ==
    /\ pc[r] = "loaded"
    /\ LET p == pack(local[r], wd[r])
       IN /\ local' = [local EXCEPT ![r] = p.set]
          /\ wd' = [wd EXCEPT ![r] = p.dir]
          /\ cyc' = [cyc EXCEPT ![r].captured = NewFiles(local[r], wd[r])]
    /\ pc' = [pc EXCEPT ![r] = "captured"]
    /\ UNCHANGED <<durable, cache, remote, adds, faults>>
    /\ UNCHANGED <<mergeVars, xVars, engineVars, rec>>

\* sync, load_file: CrdtPack::pack fails after the new files in S were packed:
\* read_dir fails (S is empty), or File::open, read_to_end, metadata or
\* set_permissions fails on the next new file, which is left writable.
LoadPackFail(r) ==
    /\ pc[r] = "loaded"
    /\ UseFault
    /\ \E S \in SUBSET NewFiles(local[r], wd[r]) :
          /\ S # NewFiles(local[r], wd[r]) \/ NewFiles(local[r], wd[r]) = {}
          /\ wd' = [wd EXCEPT ![r] = PackOver(local[r], wd[r], S).dir]
    /\ Abort(r)
    /\ UNCHANGED <<durable, cache, remote, adds>>
    /\ UNCHANGED <<mergeVars, xVars, engineVars, rec>>

\* sync: the rsync pull exits 0.
Pull(r) ==
    /\ pc[r] = "captured"
    /\ cache' = [cache EXCEPT ![r] = rsync(remote, cache[r])]
    /\ pc' = [pc EXCEPT ![r] = "pulled"]
    /\ cyc' = [cyc EXCEPT ![r].remote0 = IF is_file(remote) THEN "present" ELSE "missing",
                          ![r].pulled = remote.set]
    /\ UNCHANGED <<wd, durable, remote, local, adds, faults>>
    /\ UNCHANGED <<mergeVars, xVars, engineVars, rec>>

\* A sync that does not test the status of the rsync pull and goes on.
PullStatusIgnored(r) ==
    /\ pc[r] = "captured"
    /\ UseFault
    /\ pc' = [pc EXCEPT ![r] = "pulled"]
    /\ cyc' = [cyc EXCEPT ![r].remote0 = "missing"]
    /\ UNCHANGED <<wd, durable, cache, remote, local, adds>>
    /\ UNCHANGED <<mergeVars, xVars, engineVars, rec>>

\* A sync that saves what it captured before it returns the pull's error.
PullFailSavesLocal(r) ==
    /\ pc[r] = "captured"
    /\ UseFault
    /\ durable' = [durable EXCEPT ![r] = to_file(local[r])]
    /\ Abort(r)
    /\ UNCHANGED <<wd, cache, remote, adds>>
    /\ UNCHANGED <<mergeVars, xVars, engineVars, rec>>

\* sync: the rsync pull cannot be run or exits non-zero.
PullFail(r) ==
    /\ pc[r] = "captured"
    /\ UseFault
    /\ Abort(r)
    /\ UNCHANGED <<wd, durable, cache, remote, adds>>
    /\ UNCHANGED <<mergeVars, xVars, engineVars, rec>>

\* sync: if cache_path.is_file() { local.merge(from_file(&cache_path)?) }
MergeRemote(r) ==
    /\ pc[r] = "pulled"
    /\ ~is_file(cache[r]) \/ from_file(cache[r]).ok
    /\ local' = [local EXCEPT ![r] =
                    IF is_file(cache[r]) THEN merge(local[r], from_file(cache[r]).data)
                    ELSE local[r]]
    /\ pc' = [pc EXCEPT ![r] = "merged"]
    /\ UNCHANGED <<wd, durable, cache, remote, cyc, adds, faults>>
    /\ UNCHANGED <<mergeVars, xVars, engineVars, rec>>

\* sync: the cache file exists and from_file(&cache_path) fails.
MergeDecodeErr(r) ==
    /\ pc[r] = "pulled"
    /\ is_file(cache[r])
    /\ ~from_file(cache[r]).ok
    /\ Abort(r)
    /\ UNCHANGED <<wd, durable, cache, remote, adds, faults>>
    /\ UNCHANGED <<mergeVars, xVars, engineVars, rec>>

\* sync: CrdtPack::unpack succeeds.
Unpack(r) ==
    /\ pc[r] = "merged"
    /\ wd' = [wd EXCEPT ![r] = unpack(local[r], wd[r])]
    /\ pc' = [pc EXCEPT ![r] = "materialized"]
    /\ UNCHANGED <<durable, cache, remote, local, cyc, adds, faults>>
    /\ UNCHANGED <<mergeVars, xVars, engineVars, rec>>

\* What Library::unpack leaves of the file it fails on: nothing (File::create
\* failed), an incomplete file (write_all failed), or the whole file still
\* writable (metadata or set_permissions failed).
UnpackPartial(lib, dir, k, how) ==
    CASE how = "create" -> dir
      [] how = "write" -> WriteFile(dir, k, Truncated)
      [] how = "chmod" -> WriteFile(dir, k, lib[k])

\* sync: CrdtPack::unpack fails on entry k after the entries in S were written.
UnpackFail(r) ==
    /\ pc[r] = "merged"
    /\ UseFault
    /\ \E k \in Missing(local[r], wd[r]) :
       \E S \in SUBSET (Missing(local[r], wd[r]) \ {k}) :
       \E how \in {"create", "write", "chmod"} :
          wd' = [wd EXCEPT ![r] = UnpackPartial(local[r], UnpackOver(local[r], wd[r], S), k, how)]
    /\ Abort(r)
    /\ UNCHANGED <<durable, cache, remote, adds>>
    /\ UNCHANGED <<mergeVars, xVars, engineVars, rec>>

\* A persist step that writes the durable file and forgets the copy to the cache.
PersistWithoutCopy(r) ==
    /\ pc[r] = "materialized"
    /\ durable' = [durable EXCEPT ![r] = to_file(local[r])]
    /\ pc' = [pc EXCEPT ![r] = "persisted"]
    /\ UNCHANGED <<wd, cache, remote, local, cyc, adds, faults>>
    /\ UNCHANGED <<mergeVars, xVars, engineVars, rec>>

\* sync: to_file(&vars.crdt, &local) and copy(&vars.crdt, &cache_path) succeed.
Persist(r) ==
    /\ pc[r] = "materialized"
    /\ durable' = [durable EXCEPT ![r] = to_file(local[r])]
    /\ cache' = [cache EXCEPT ![r] = durable'[r]]
    /\ pc' = [pc EXCEPT ![r] = "persisted"]
    /\ UNCHANGED <<wd, remote, local, cyc, adds, faults>>
    /\ UNCHANGED <<mergeVars, xVars, engineVars, rec>>

\* sync: the persist step fails.  to_file: File::create fails (nothing changes) or
\* into_writer fails after File::create truncated the durable file.  copy: opening
\* the cache file fails, or the copy fails after the cache file was truncated.
PersistFail(r) ==
    /\ pc[r] = "materialized"
    /\ UseFault
    /\ \/ UNCHANGED <<durable, cache>>
       \/ /\ durable' = [durable EXCEPT ![r] = Corrupt]
          /\ UNCHANGED cache
       \/ /\ durable' = [durable EXCEPT ![r] = to_file(local[r])]
          /\ UNCHANGED cache
       \/ /\ durable' = [durable EXCEPT ![r] = to_file(local[r])]
          /\ cache' = [cache EXCEPT ![r] = Corrupt]
    /\ Abort(r)
    /\ UNCHANGED <<wd, remote, adds>>
    /\ UNCHANGED <<mergeVars, xVars, engineVars, rec>>

\* A sync that pushes the cache file before the persist step wrote it.
PushBeforePersist(r) ==
    /\ pc[r] = "materialized"
    /\ remote' = rsync(cache[r], remote)
    /\ pc' = [pc EXCEPT ![r] = "pushed"]
    /\ UNCHANGED <<wd, durable, cache, local, cyc, adds, faults>>
    /\ UNCHANGED <<mergeVars, xVars, engineVars, rec>>

\* sync: the rsync push exits 0.
Push(r) ==
    /\ pc[r] = "persisted"
    /\ remote' = rsync(cache[r], remote)
    /\ pc' = [pc EXCEPT ![r] = "pushed"]
    /\ UNCHANGED <<wd, durable, cache, local, cyc, adds, faults>>
    /\ UNCHANGED <<mergeVars, xVars, engineVars, rec>>

\* sync: the rsync push cannot be run or exits non-zero.
PushFail(r) ==
    /\ pc[r] = "persisted"
    /\ UseFault
    /\ Abort(r)
    /\ UNCHANGED <<wd, durable, cache, remote, adds>>
    /\ UNCHANGED <<mergeVars, xVars, engineVars, rec>>

\* sync returns Ok(()): the process exits with success.
Exit(r) ==
    /\ pc[r] = "pushed"
    /\ pc' = [pc EXCEPT ![r] = "idle"]
    /\ local' = [local EXCEPT ![r] = new]
    /\ cyc' = [cyc EXCEPT ![r] = NoCycle]
    /\ UNCHANGED <<wd, durable, cache, remote, adds, faults>>
    /\ UNCHANGED <<mergeVars, xVars, engineVars, rec>>

\* ------------------------------------------------------------ specifications
MergeIdle ==
    /\ mself = new
    /\ msnap = <<new, new>>
    /\ macc = new
    /\ mapplied = <<>>

ExchangeIdle ==
    /\ xwd = [r \in Replicas |-> EmptyDir]
    /\ xs = [r \in Replicas |-> new]
    /\ xcap = [r \in Replicas |-> FALSE]
    /\ xgot = [r \in Replicas |-> 0]

SyncIdle ==
    /\ wd = [r \in Replicas |-> EmptyDir]
    /\ durable = [r \in Replicas |-> NoFile]
    /\ cache = [r \in Replicas |-> NoFile]
    /\ remote = NoFile
    /\ local = [r \in Replicas |-> new]
    /\ pc = [r \in Replicas |-> "idle"]
    /\ cyc = [r \in Replicas |-> NoCycle]
    /\ adds = 0
    /\ faults = 0

EngineIdle ==
    /\ elib = new
    /\ edir = EmptyDir
    /\ esub = {}
    /\ eop = "none"
    /\ eok = TRUE
    /\ eops = 0

\* No run is under observation.
NoRun ==
    [phase |-> "none", r |-> "A", faults |-> 0,
     durable |-> NoFile, wd |-> EmptyDir, remote |-> NoFile]

RecoveryIdle == rec = NoRun

\* Two fresh machines: empty working directories, no state, cache or remote file.
Init == SyncIdle /\ MergeIdle /\ ExchangeIdle /\ EngineIdle /\ RecoveryIdle

\* The steps of init and sync that need no failing I/O call and no torn file.
CleanStep(r) ==
    \/ init(r)
    \/ LoadFromFile(r)
    \/ LoadFromFileErr(r)
    \/ LoadPack(r)
    \/ Pull(r)
    \/ MergeRemote(r)
    \/ Unpack(r)
    \/ Persist(r)
    \/ Push(r)
    \/ Exit(r)

SyncStep(r) ==
    \/ CleanStep(r)
    \/ MergeDecodeErr(r)

FaultStep(r) ==
    \/ initFail(r)
    \/ LoadPackFail(r)
    \/ PullFail(r)
    \/ UnpackFail(r)
    \/ PersistFail(r)
    \/ PushFail(r)

Next ==
    \/ \E r \in Replicas, k \in Keys, c \in Contents : AddFile(r, k, c)
    \/ \E r \in Replicas : SyncStep(r)
    \/ \E r \in Replicas : FaultStep(r)

Spec == Init /\ [][Next]_vars

\* ------------------------------------------------------------ the merge algebra
Libraries == LibrariesOver(Contents)

\* Any state S and any two snapshots.
MergeInit ==
    /\ SyncIdle /\ ExchangeIdle /\ EngineIdle /\ RecoveryIdle
    /\ mself \in Libraries
    /\ msnap \in Libraries \X Libraries
    /\ macc = mself
    /\ mapplied = <<>>

\* self.merge(msnap[i]) on the accumulated state.
MergeSnapshot(i) ==
    /\ Len(mapplied) < MaxMerges
    /\ macc' = merge(macc, msnap[i])
    /\ mapplied' = Append(mapplied, i)
    /\ UNCHANGED <<mself, msnap>>
    /\ UNCHANGED <<syncVars, xVars, engineVars, rec>>

MergeNext == \E i \in {1, 2} : MergeSnapshot(i)

MergeSpec == MergeInit /\ [][MergeNext]_vars

\* ------------------------------------------------------------ the direct exchange
\* A directory of files not yet captured.
FreshDirs == UNION {[S -> [content : Contents, readonly : {FALSE}]] : S \in SUBSET Keys}

\* Two replicas holding disjoint sets of files, nothing captured yet.
ExchangeInit ==
    /\ SyncIdle /\ MergeIdle /\ EngineIdle /\ RecoveryIdle
    /\ xwd \in [Replicas -> FreshDirs]
    /\ (DOMAIN xwd["A"]) \cap (DOMAIN xwd["B"]) = {}
    /\ xs = [r \in Replicas |-> new]
    /\ xcap = [r \in Replicas |-> FALSE]
    /\ xgot = [r \in Replicas |-> 0]

\* Replica r captures its files: Library::pack.
XCapture(r) ==
    /\ ~xcap[r]
    /\ xs' = [xs EXCEPT ![r] = pack(xs[r], xwd[r]).set]
    /\ xwd' = [xwd EXCEPT ![r] = pack(xs[r], xwd[r]).dir]
    /\ xcap' = [xcap EXCEPT ![r] = TRUE]
    /\ UNCHANGED xgot
    /\ UNCHANGED <<syncVars, mergeVars, engineVars, rec>>

\* Replica r pulls its peer's state and merges it: Library::merge.
XPullMerge(r) ==
    /\ \A q \in Replicas : xcap[q]
    /\ xgot[r] < MaxExchanges
    /\ xs' = [xs EXCEPT ![r] = merge(xs[r], xs[Other(r)])]
    /\ xgot' = [xgot EXCEPT ![r] = xgot[r] + 1]
    /\ UNCHANGED <<xwd, xcap>>
    /\ UNCHANGED <<syncVars, mergeVars, engineVars, rec>>

ExchangeNext == \E r \in Replicas : XCapture(r) \/ XPullMerge(r)

ExchangeSpec == ExchangeInit /\ [][ExchangeNext]_vars

\* ------------------------------------------------------------ syncs that keep running
\* No I/O call fails and every rsync run exits 0.
LiveNext ==
    \/ \E r \in Replicas, k \in Keys, c \in Contents : AddFile(r, k, c)
    \/ \E r \in Replicas : CleanStep(r)

\* Each replica's user keeps running init and sync, and a running sync goes on
\* to its next step.
LiveSpec == Init /\ [][LiveNext]_vars /\ \A r \in Replicas : WF_vars(CleanStep(r))

\* ------------------------------------------------------------ pack and unpack on any directory
\* Every set of plain files over Keys: read-only or not, with any content.
Dirs == UNION {[S -> [content : Contents, readonly : BOOLEAN]] : S \in SUBSET Keys}

\* Any Library and any data directory: plain files, whose bytes may differ from
\* the entry of the same name, and sub-directories.
EngineInit ==
    /\ SyncIdle /\ MergeIdle /\ ExchangeIdle /\ RecoveryIdle
    /\ elib \in Libraries
    /\ edir \in Dirs
    /\ esub \in SUBSET (Keys \ DOMAIN edir)
    /\ eop = "none"
    /\ eok = TRUE
    /\ eops = 0

\* What a call or a drop records.
Called(op, ok) ==
    /\ eops < MaxOps
    /\ eop' = op
    /\ eok' = ok
    /\ eops' = eops + 1
    /\ UNCHANGED <<syncVars, mergeVars, xVars, rec>>

\* The user drops a plain file into the data directory.
EDrop(k, c) ==
    /\ k \notin (DOMAIN edir) \cup esub
    /\ edir' = WriteFile(edir, k, c)
    /\ UNCHANGED <<elib, esub>>
    /\ Called("drop", TRUE)

\* Library::pack returns Ok: read_dir lists edir and esub, the entries that are
\* not plain files are skipped.
ECapture ==
    /\ elib' = pack(elib, edir).set
    /\ edir' = pack(elib, edir).dir
    /\ UNCHANGED esub
    /\ Called("pack", TRUE)

\* Library::pack returns Err after the new files in S were packed: read_dir
\* fails, or a call on the next new file k does, before or after its insert.
ECaptureFail ==
    /\ \E S \in SUBSET NewFiles(elib, edir) :
          /\ S # NewFiles(elib, edir) \/ NewFiles(elib, edir) = {}
          /\ edir' = PackOver(elib, edir, S).dir
          /\ \/ elib' = PackOver(elib, edir, S).set
             \/ \E k \in NewFiles(elib, edir) \ S :
                   elib' = Insert(PackOver(elib, edir, S).set, k, edir[k].content)
    /\ UNCHANGED esub
    /\ Called("pack", FALSE)

\* Library::unpack returns Ok: no missing entry has a sub-directory at its path.
EMaterialize ==
    /\ Missing(elib, edir) \cap esub = {}
    /\ edir' = unpack(elib, edir)
    /\ UNCHANGED <<elib, esub>>
    /\ Called("unpack", TRUE)

\* Library::unpack returns Err on entry k after the entries in S were written:
\* File::create fails on a sub-directory, or any call fails.
EMaterializeFail ==
    /\ \E k \in Missing(elib, edir) :
       \E S \in SUBSET (Missing(elib, edir) \ ({k} \cup esub)) :
       \E how \in {"create", "write", "chmod"} :
          /\ k \in esub => how = "create"
          /\ edir' = UnpackPartial(elib, UnpackOver(elib, edir, S), k, how)
    /\ UNCHANGED <<elib, esub>>
    /\ Called("unpack", FALSE)

EngineNext ==
    \/ \E k \in Keys, c \in Contents : EDrop(k, c)
    \/ ECapture
    \/ ECaptureFail
    \/ EMaterialize
    \/ EMaterializeFail

EngineSpec == EngineInit /\ [][EngineNext]_vars

\* ------------------------------------------------------------ a sync after an aborted sync
\* load_file and the decode of the pulled blob succeed on these files.
CanSync(d, c, rem) ==
    /\ from_file(d).ok
    /\ is_file(rsync(rem, c)) => from_file(rsync(rem, c)).ok

\* What one sync that returns Ok leaves, run on working directory w, durable
\* file d and cache file c while the remote is rem.
SyncOutcome(w, d, c, rem) ==
    LET loaded == pack(from_file(d).data, w)
        pulled == rsync(rem, c)
        merged == IF is_file(pulled) THEN merge(loaded.set, from_file(pulled).data)
                  ELSE loaded.set
    IN [durable |-> to_file(merged),
        wd |-> unpack(merged, loaded.dir),
        remote |-> rsync(to_file(merged), rem)]

\* Before a sync of r starts: note what it would leave if it returned Ok.
Observe(r) ==
    /\ rec.phase = "none"
    /\ pc[r] = "idle"
    /\ faults < MaxFaults
    /\ CanSync(durable[r], cache[r], remote)
    /\ LET out == SyncOutcome(wd[r], durable[r], cache[r], remote)
       IN rec' = [phase |-> "armed", r |-> r, faults |-> faults,
                  durable |-> out.durable, wd |-> out.wd, remote |-> out.remote]
    /\ UNCHANGED <<syncVars, mergeVars, xVars, engineVars>>

\* The first sync of r that returns Ok since the observation started: it came
\* after an aborted sync, or it was the first.
Settle(r) ==
    /\ rec.phase = "armed"
    /\ rec.r = r
    /\ pc[r] = "pushed"
    /\ rec' = [rec EXCEPT !.phase = IF faults > rec.faults THEN "recovered" ELSE "first"]
    /\ UNCHANGED <<syncVars, mergeVars, xVars, engineVars>>

\* While a run of r is observed, only r takes steps: nobody else changes the
\* remote and no file is dropped into r's working directory.
Undisturbed(r) ==
    \/ rec.phase = "none"
    \/ rec.phase = "armed" /\ rec.r = r /\ pc[r] # "pushed"

RecoveryNext ==
    \/ \E r \in Replicas : Observe(r)
    \/ \E r \in Replicas : Settle(r)
    \/ \E r \in Replicas, k \in Keys, c \in Contents : rec.phase = "none" /\ AddFile(r, k, c)
    \/ \E r \in Replicas : Undisturbed(r) /\ SyncStep(r)
    \/ \E r \in Replicas : Undisturbed(r) /\ FaultStep(r)

RecoverySpec == Init /\ [][RecoveryNext]_vars

\* ------------------------------------------------------------ properties
\* The Library in r's durable state file, when the file decodes.
Readable(r) == from_file(durable[r]).ok
State(r) == from_file(durable[r]).data

\* r's sync has returned Ok(()).
SyncDone(r) == pc[r] = "pushed"

\* C1: once no new files are added and both replicas keep running successful
\* syncs, whose steps interleave in any order, their durable states eventually
\* hold the same key -> content mapping, and keep holding it.
Converged == \A r \in Replicas : Readable(r) /\ State(r) = State(Other(r))
Convergence == (\A r \in Replicas : []<>SyncDone(r)) => <>[]Converged

\* C2: replicas that captured disjoint file sets and then pull-merged each other's
\* state at least once each, in either order and any number of times, hold the
\* same keys with the same content: every captured file, with its content.
ExchangeConverges ==
    (\A r \in Replicas : xgot[r] >= 1) =>
        /\ xs["A"] = xs["B"]
        /\ \A r \in Replicas :
              /\ DOMAIN xs[r] = (DOMAIN xwd["A"]) \cup (DOMAIN xwd["B"])
              /\ \A k \in DOMAIN xwd[r] : xs[r][k] = xwd[r][k].content

\* Both replicas captured files, and each pull-merged the other, B more than once.
ExchangeWitness ==
    /\ \A r \in Replicas : DOMAIN xwd[r] # {}
    /\ xgot["A"] = 1
    /\ xgot["B"] = 2
    /\ xs["A"] = xs["B"]

\* C3: merging snapshot A then B into S yields the same mapping as merging B
\* then A into S, for any S, A and B.
MergeCommutes ==
    mapplied = <<1, 2>> => macc = merge(merge(mself, msnap[2]), msnap[1])

\* C4: merge is idempotent: merging R a second time changes nothing, and merging
\* a state into itself leaves it as it is.
MergeIdempotent ==
    /\ (Len(mapplied) = 2 /\ mapplied[1] = mapplied[2]) => macc = merge(mself, msnap[mapplied[1]])
    /\ (Len(mapplied) = 1 /\ msnap[mapplied[1]] = mself) => macc = mself

\* R was merged twice into a state that disagrees with R on a key, and R brings a new key.
MergeIdempotentWitness ==
    /\ Len(mapplied) = 2
    /\ mapplied[1] = mapplied[2]
    /\ \E k \in DOMAIN mself \cap DOMAIN msnap[mapplied[1]] : mself[k] # msnap[mapplied[1]][k]
    /\ (DOMAIN msnap[mapplied[1]]) \ (DOMAIN mself) # {}

\* C5: merge(self, other) is the left-biased union: its keys are those of self and
\* of other, a key of self keeps self's content, a key only in other has other's.
MergeLeftBiasedUnion ==
    Len(mapplied) = 1 =>
        LET other == msnap[mapplied[1]]
        IN /\ DOMAIN macc = (DOMAIN mself) \cup (DOMAIN other)
           /\ \A k \in DOMAIN macc :
                 macc[k] = IF k \in DOMAIN mself THEN mself[k] ELSE other[k]

\* One merge, of a snapshot that brings a new key and disagrees on a shared one.
MergeLeftBiasedWitness ==
    /\ Len(mapplied) = 1
    /\ \E k \in DOMAIN mself \cap DOMAIN msnap[mapplied[1]] : mself[k] # msnap[mapplied[1]][k]
    /\ (DOMAIN msnap[mapplied[1]]) \ (DOMAIN mself) # {}

\* C6: a key present in a replica's durable state with some content is never
\* removed and its content never changes, whatever runs, aborted syncs included.
GrowOnly ==
    [][\A r \in Replicas : \A k \in DOMAIN durable[r].set :
          /\ k \in DOMAIN durable'[r].set
          /\ durable'[r].set[k] = durable[r].set[k]]_vars

\* The two working directories hold a file named k with different content.
Conflict(k) ==
    /\ \A r \in Replicas : k \in DOMAIN wd[r]
    /\ wd["A"][k].content # wd["B"][k].content

\* C7: when both replicas hold a file of the same name with different content,
\* each replica's state (in memory and durable) assigns the key the content that
\* entered it first, its own file's, whatever it pulls; and the content a durable
\* state assigns to a key never changes.
FirstWriterWins ==
    /\ [](\A k \in Keys : Conflict(k) =>
            \A r \in Replicas :
               /\ k \in DOMAIN local[r] => local[r][k] = wd[r][k].content
               /\ k \in DOMAIN State(r) => State(r)[k] = wd[r][k].content)
    /\ [][\A r \in Replicas : \A k \in (DOMAIN durable[r].set) \cap (DOMAIN durable'[r].set) :
            durable'[r].set[k] = durable[r].set[k]]_vars

\* Both replicas captured same.txt with different content; B then pulled A's
\* entry for it and finished its sync still holding its own.
FirstWriterWinsWitness ==
    /\ Conflict("same.txt")
    /\ SyncDone("B")
    /\ "same.txt" \in DOMAIN cyc["B"].pulled
    /\ cyc["B"].pulled["same.txt"] = wd["A"]["same.txt"].content
    /\ "same.txt" \in DOMAIN State("A")
    /\ "same.txt" \in DOMAIN State("B")
    /\ State("A")["same.txt"] # State("B")["same.txt"]

\* C8: at the end of a successful sync the replica's durable state maps every key
\* of the blob it pulled and every file it captured, a pulled key it did not have
\* with the pulled content; its working directory holds a read-only file with the
\* state's content for every key; and no file of a working directory ever changes
\* content or disappears.
PublishThenPull ==
    /\ [](\A r \in Replicas : SyncDone(r) =>
            /\ Readable(r)
            /\ DOMAIN State(r) = (DOMAIN cyc[r].durable0) \cup cyc[r].captured \cup (DOMAIN cyc[r].pulled)
            /\ \A k \in (DOMAIN cyc[r].pulled) \ ((DOMAIN cyc[r].durable0) \cup cyc[r].captured) :
                  State(r)[k] = cyc[r].pulled[k]
            /\ \A k \in DOMAIN State(r) :
                  /\ k \in DOMAIN wd[r]
                  /\ wd[r][k].content = State(r)[k]
                  /\ wd[r][k].readonly)
    /\ [][\A r \in Replicas : \A k \in DOMAIN wd[r] :
            /\ k \in DOMAIN wd'[r]
            /\ wd'[r][k].content = wd[r][k].content]_vars

\* B captured a file of its own, pulled a blob with a key it had no file for, and
\* finished its sync.
PublishThenPullWitness ==
    /\ SyncDone("B")
    /\ cyc["B"].captured # {}
    /\ (DOMAIN cyc["B"].pulled) \ ((DOMAIN cyc["B"].durable0) \cup cyc["B"].captured) # {}
    /\ remote = durable["B"]

\* C9: when the remote object does not exist at the pull, the merge changes
\* nothing, the cycle is not aborted by the merge step, and a cycle that completes
\* leaves the durable state as it was plus the files captured in this cycle;
\* whatever an earlier cycle left in the cache file.
TolerantPull ==
    \A r \in Replicas : cyc[r].remote0 = "missing" =>
        /\ pc[r] = "pulled" => ~is_file(cache[r]) \/ from_file(cache[r]).ok
        /\ pc[r] \in {"merged", "materialized", "persisted", "pushed"} =>
              /\ DOMAIN local[r] = (DOMAIN cyc[r].durable0) \cup cyc[r].captured
              /\ \A k \in DOMAIN cyc[r].durable0 : local[r][k] = cyc[r].durable0[k]
              /\ \A k \in cyc[r].captured : local[r][k] = wd[r][k].content
        /\ SyncDone(r) => durable[r] = to_file(local[r])

\* The order of the steps of one invocation.
StepAfter ==
    {<<"idle", "loaded">>, <<"loaded", "captured">>, <<"captured", "pulled">>,
     <<"pulled", "merged">>, <<"merged", "materialized">>,
     <<"materialized", "persisted">>, <<"persisted", "pushed">>, <<"pushed", "idle">>}

\* C10: a sync passes through load, capture, pull, merge, materialize, persist,
\* push, done in this order (or aborts); the remote is written only by a push that
\* follows this invocation's pull and persist, with the merged state in the durable
\* file and copied to the cache, and the push publishes the cache file.
StepOrder ==
    [][/\ \A r \in Replicas : pc'[r] # pc[r] =>
             <<pc[r], pc'[r]>> \in StepAfter \/ pc'[r] = "idle"
       /\ remote' # remote =>
             \E r \in Replicas :
                /\ pc[r] = "persisted" /\ pc'[r] = "pushed"
                /\ cyc[r].remote0 # "n/a"
                /\ durable[r] = to_file(local[r])
                /\ cache[r] = durable[r]
                /\ remote' = cache[r]
       /\ \A r \in Replicas :
             /\ durable'[r] # durable[r] =>
                   pc[r] = "materialized" \/ (pc[r] = "idle" /\ pc'[r] = "idle")
             /\ cache'[r] # cache[r] => pc[r] \in {"captured", "materialized"}
             /\ local'[r] # local[r] /\ pc'[r] # "idle" => pc[r] \in {"idle", "loaded", "pulled"}
             /\ wd'[r] # wd[r] => pc[r] \in {"idle", "loaded", "merged"}]_vars

\* A sync that ran all its steps and published a state other than the one the
\* remote held when it pulled.
StepOrderWitness ==
    \E r \in Replicas :
        /\ SyncDone(r)
        /\ cyc[r].remote0 = "present"
        /\ remote = durable[r]
        /\ remote.set # cyc[r].pulled

\* The files of replica r other than its working directory are as they were.
StateFilesUnchanged(r) == durable'[r] = durable[r] /\ cache'[r] = cache[r]

\* C11: a failing step ends the invocation: the sync returns (its in-memory state
\* is dropped) and no later step of it runs, so a failed load leaves everything, a
\* failed capture or materialize changes only the working directory, a failed pull
\* or push changes nothing, a failed decode of the pulled blob changes nothing, a
\* failed persist changes neither the working directory nor the remote; and the
\* remote is never written by an invocation that failed.
ShortCircuit ==
    [][/\ faults' # faults =>
             /\ remote' = remote
             /\ \E r \in Replicas :
                   /\ pc'[r] = "idle" /\ local'[r] = new
                   /\ pc[r] \in {"idle", "loaded", "captured", "merged", "materialized", "persisted"}
                   /\ pc[r] = "idle" => wd'[r] = wd[r] /\ cache'[r] = cache[r]
                   /\ pc[r] \in {"loaded", "merged"} => StateFilesUnchanged(r)
                   /\ pc[r] \in {"captured", "persisted"} => wd'[r] = wd[r] /\ StateFilesUnchanged(r)
                   /\ pc[r] = "materialized" => wd'[r] = wd[r]
       /\ \A r \in Replicas :
             /\ (pc[r] = "idle" /\ ~from_file(durable[r]).ok) => pc'[r] = "idle"
             /\ (pc[r] = "pulled" /\ is_file(cache[r]) /\ ~from_file(cache[r]).ok) =>
                   /\ pc'[r] \in {"pulled", "idle"}
                   /\ pc'[r] = "idle" =>
                         /\ wd'[r] = wd[r] /\ StateFilesUnchanged(r)
                         /\ remote' = remote /\ local'[r] = new]_vars

\* A sync was aborted after it captured a file: the file is read-only, no durable
\* state holds it, nothing was published and no sync of the replica is running.
ShortCircuitWitness ==
    \E r \in Replicas : \E k \in DOMAIN wd[r] :
        /\ faults > 0
        /\ pc[r] = "idle"
        /\ wd[r][k].readonly
        /\ Readable(r)
        /\ k \notin DOMAIN State(r)
        /\ ~is_file(remote)

\* C13: init leaves an existing durable state file as it is, whatever it holds;
\* when the file is missing it writes an empty state (or, its write failing, a
\* torn file); no step taken while no sync runs removes or changes an entry.
InitKeepsState ==
    [][\A r \in Replicas : (pc[r] = "idle" /\ pc'[r] = "idle") =>
          /\ is_file(durable[r]) => durable'[r] = durable[r]
          /\ (~is_file(durable[r]) /\ durable'[r] # durable[r]) =>
                \/ durable'[r] = to_file(new)
                \/ durable'[r] = Corrupt /\ faults' # faults]_vars

\* A replica that synced, holds entries, and runs no sync: init may run now.
InitKeepsStateWitness ==
    \E r \in Replicas :
        /\ pc[r] = "idle"
        /\ Readable(r)
        /\ State(r) # new
        /\ remote = durable[r]

\* C16: once the persist step is done, and so at the end of a successful sync, the
\* cache file is the durable state file, which holds the in-memory state; and the
\* push publishes exactly that state.
CacheMirrorsDurable ==
    /\ [](\A r \in Replicas : pc[r] \in {"persisted", "pushed"} =>
            /\ Readable(r)
            /\ from_file(cache[r]).ok
            /\ from_file(cache[r]).data = State(r)
            /\ State(r) = local[r])
    /\ [][\A r \in Replicas : (pc[r] = "persisted" /\ pc'[r] = "pushed") =>
            /\ from_file(remote').ok
            /\ from_file(remote').data = State(r)]_vars

\* A sync persisted a state other than the blob it had pulled into the cache.
CacheMirrorsDurableWitness ==
    \E r \in Replicas :
        /\ pc[r] = "persisted"
        /\ cyc[r].remote0 = "present"
        /\ cyc[r].pulled # State(r)
        /\ cyc[r].pulled # new

\* C17: while a replica's durable state file is missing, its sync gets no further
\* than the load: no step of the replica captures a file or changes a permission,
\* pulls into the cache, or pushes; only init makes the durable file.
MissingStateStopsSync ==
    [][\A r \in Replicas : (pc[r] = "idle" /\ ~is_file(durable[r])) =>
          /\ pc'[r] = "idle"
          /\ local'[r] = local[r]
          /\ cache'[r] = cache[r]
          /\ \A k \in DOMAIN wd[r] : wd'[r][k] = wd[r][k]
          /\ remote' # remote => pc[Other(r)] = "persisted"
          /\ durable'[r] # durable[r] => durable'[r] \in {to_file(new), Corrupt}]_vars

\* init never ran on r, which holds a file not yet captured, while the peer has
\* published: a sync of r would have a file to capture and a blob to pull.
MissingStateWitness ==
    \E r \in Replicas : \E k \in DOMAIN wd[r] :
        /\ pc[r] = "idle"
        /\ ~is_file(durable[r])
        /\ ~wd[r][k].readonly
        /\ is_file(remote)
        /\ ~is_file(cache[r])

\* C18: at the end of a successful sync every key of the durable state has a file
\* in the working directory, with the state's content, and every plain file of
\* the working directory is a key of the state.
NothingPending ==
    \A r \in Replicas : SyncDone(r) =>
        /\ Readable(r)
        /\ DOMAIN State(r) = DOMAIN wd[r]
        /\ \A k \in DOMAIN State(r) : wd[r][k].content = State(r)[k]

\* A sync that captured a file and materialized another one is done.
NothingPendingWitness ==
    \E r \in Replicas :
        /\ SyncDone(r)
        /\ cyc[r].captured # {}
        /\ (DOMAIN State(r)) \ ((DOMAIN cyc[r].durable0) \cup cyc[r].captured) # {}

\* C19: a sync that aborts before its persist step leaves the durable state file
\* and the remote as they were before the invocation: until the persist step the
\* durable file holds what was loaded, and the abort writes neither.
AbortBeforePersist ==
    /\ [](\A r \in Replicas : pc[r] \in {"loaded", "captured", "pulled", "merged", "materialized"} =>
            durable[r] = to_file(cyc[r].durable0))
    /\ [][\A r \in Replicas :
            (pc[r] \in {"loaded", "captured", "pulled", "merged"} /\ pc'[r] = "idle") =>
                /\ durable'[r] = durable[r]
                /\ remote' = remote]_vars

\* A sync was aborted after it captured a file: the durable state lacks the key.
AbortBeforePersistWitness ==
    \E r \in Replicas : \E k \in DOMAIN wd[r] :
        /\ faults > 0
        /\ pc[r] = "idle"
        /\ wd[r][k].readonly
        /\ Readable(r)
        /\ k \notin DOMAIN State(r)
        /\ is_file(remote)

\* C20: a push of a sync that no other sync overlapped (the remote still is the
\* blob this sync pulled) publishes a state holding every key/content pair the
\* remote held before it.
RemoteGrowOnly ==
    [][\A r \in Replicas :
          (pc[r] = "persisted" /\ pc'[r] = "pushed" /\ remote.set = cyc[r].pulled) =>
              \A k \in DOMAIN remote.set :
                 /\ k \in DOMAIN remote'.set
                 /\ remote'.set[k] = remote.set[k]]_vars

\* C14: capture is additive-only and idempotent: a pack leaves every existing entry
\* as it is, also when the file of that name holds other bytes; it inserts only
\* plain files that were not keys, with the file's bytes; when it returns Ok the
\* keys are the old keys and the plain files; it changes no file's bytes; and a
\* pack right after a successful pack changes nothing.
CaptureAdditive ==
    [][(eop' = "pack" /\ eops' # eops) =>
          /\ \A k \in DOMAIN elib : k \in DOMAIN elib' /\ elib'[k] = elib[k]
          /\ \A k \in (DOMAIN elib') \ (DOMAIN elib) :
                k \in DOMAIN edir /\ elib'[k] = edir[k].content
          /\ eok' => DOMAIN elib' = (DOMAIN elib) \cup (DOMAIN edir)
          /\ DOMAIN edir' = DOMAIN edir
          /\ \A k \in DOMAIN edir : edir'[k].content = edir[k].content
          /\ esub' = esub
          /\ (eop = "pack" /\ eok /\ eok') => (elib' = elib /\ edir' = edir)]_vars

\* A pack returned Ok where an entry and the file of its name differ, next to a
\* sub-directory and another captured file.
CaptureAdditiveWitness ==
    /\ eop = "pack" /\ eok
    /\ \E k \in (DOMAIN elib) \cap (DOMAIN edir) : elib[k] # edir[k].content
    /\ \/ esub # {}
       \/ \E k \in (DOMAIN elib) \cap (DOMAIN edir) : elib[k] = edir[k].content

\* C15: materialize never overwrites: an unpack leaves every existing plain file as
\* it is, bytes and permission, also when the entry of that name holds other
\* bytes; it creates files only for entries that had none; when it returns Ok each
\* entry has a file and each created file is read-only with the entry's bytes
\* (the file it failed on may be incomplete); the Library is not changed.
MaterializeKeeps ==
    [][(eop' = "unpack" /\ eops' # eops) =>
          /\ \A k \in DOMAIN edir : k \in DOMAIN edir' /\ edir'[k] = edir[k]
          /\ \A k \in (DOMAIN edir') \ (DOMAIN edir) :
                /\ k \in DOMAIN elib
                /\ edir'[k].content \in {elib[k], Truncated}
                /\ eok' => edir'[k] = [content |-> elib[k], readonly |-> TRUE]
          /\ eok' => DOMAIN edir' = (DOMAIN edir) \cup (DOMAIN elib)
          /\ elib' = elib
          /\ esub' = esub]_vars

\* An unpack returned Ok where an entry and the file of its name differ and
\* another entry has its file.
MaterializeKeepsWitness ==
    /\ eop = "unpack" /\ eok
    /\ \E k \in (DOMAIN elib) \cap (DOMAIN edir) : elib[k] # edir[k].content
    /\ \E k \in (DOMAIN elib) \cap (DOMAIN edir) :
          edir[k] = [content |-> elib[k], readonly |-> TRUE]

\* C12: when a sync of a replica aborts and the replica's next sync returns Ok,
\* nobody else having changed the remote or the working directory in between, the
\* durable state, the working directory and the remote are what one sync that
\* returns Ok would have left from the state before the aborted sync.
RecoveryEquivalent ==
    rec.phase = "recovered" =>
        /\ durable[rec.r] = rec.durable
        /\ wd[rec.r] = rec.wd
        /\ remote = rec.remote

====
